---- MODULE Spec2Model ----
(***************************************************************************)
(* Credentials of src/src/datatypes/credentials.rs: UUID, Password with    *)
(* its base-53 checksum, Credential, ExpandedCredential and the key        *)
(* expansion.                                                              *)
(*                                                                         *)
(* Three specifications share the module:                                  *)
(*   Spec          concurrent generation calls on one shared randomness    *)
(*                 source (UUID::gen, Password::gen, Credential::gen,      *)
(*                 ExpandedCredential::gen);                               *)
(*   SpecChecksum  the checksum as a pure function of a Password value;    *)
(*   SpecExpand    Credential / ExpandedCredential values and the          *)
(*                 conversions between them.                               *)
(*                                                                         *)
(* A Base58 string is a sequence of ASCII codes.  The source's strings are *)
(* 22 characters long; here they have the shorter length BASE58_STRLEN,    *)
(* for which TLC can compute 58^idx exactly as the source's u128 does      *)
(* (at 22 characters 58^20 * 57 < 2^128, so the source never wraps).       *)
(***************************************************************************)
EXTENDS Integers, Sequences, FiniteSets, TLC

VARIABLES
    \* Spec: the shared randomness source and the generation calls
    lock,       \* holder of the Mutex around the source, 0 when free
    pc,         \* per call: where it is
    op,         \* per call: which gen function was called
    arg,        \* per call: the &UUID argument of Credential::gen
    buf,        \* per call: the Base58 string being drawn / checksummed
    out,        \* per call: what the call returned
    rngErr,     \* per call: the source reported a failure to this call
    \* SpecChecksum: one Password value under test
    pw,         \* the Password's bytes
    orig,       \* the valid Password before a character was replaced
    stage,      \* "raw", "valid" or "corrupt"
    mpos,       \* the replaced position, 0 when none
    verdict,    \* outcome of the last validate_checksum call, "none" before
    \* SpecExpand: credentials and expansions
    cred,       \* the Credential at hand, NoVal when none
    log,        \* the ExpandedCredentials made so far, in order
    back        \* the result of the last downcast

vars == <<lock, pc, op, arg, buf, out, rngErr,
          pw, orig, stage, mpos, verdict, cred, log, back>>

genVars == <<lock, pc, op, arg, buf, out, rngErr>>
chkVars == <<pw, orig, stage, mpos, verdict>>
expVars == <<cred, log, back>>

-----------------------------------------------------------------------------
(* Bounds *)

\* Length of a Base58 string in the model (22 in the source).
BASE58_STRLEN == 3

\* Number of generation calls that share the randomness source.
NumProcs == 2

\* Number of ExpandedCredentials made in one run of SpecExpand.
MaxLog == 3

\* Number of those that come from deserialization.
MaxDeserialized == 1

\* Size of the space the derived bytes are drawn from (2^256 in the source).
DeriveSpace == 251

-----------------------------------------------------------------------------
(* Base58 tables (datatypes::base58) *)

\* alphabet[0..58) -> symbol byte; index d+1 holds the symbol of digit d.
LOOKUPTABLE ==
    << 49, 50, 51, 52, 53, 54, 55, 56, 57, 65,
       66, 67, 68, 69, 70, 71, 72, 74, 75, 76,
       77, 78, 80, 81, 82, 83, 84, 85, 86, 87,
       88, 89, 90, 97, 98, 99, 100, 101, 102, 103,
       104, 105, 106, 107, 109, 110, 111, 112, 113, 114,
       115, 116, 117, 118, 119, 120, 121, 122 >>

\* symbol byte -> digit in [0,58); 255 for a byte outside the alphabet.
INV_LOOKUPTABLE ==
    [b \in 0..127 |->
        IF \E i \in 1..Len(LOOKUPTABLE) : LOOKUPTABLE[i] = b
        THEN (CHOOSE i \in 1..Len(LOOKUPTABLE) : LOOKUPTABLE[i] = b) - 1
        ELSE 255]

Alphabet == {LOOKUPTABLE[i] : i \in 1..Len(LOOKUPTABLE)}

\* A Base58 value: exactly BASE58_STRLEN characters of the alphabet.
IsBase58(s) ==
    /\ Len(s) = BASE58_STRLEN
    /\ \A i \in 1..Len(s) : s[i] \in Alphabet

-----------------------------------------------------------------------------
(* Password::checksum, insert_checksum, validate_checksum *)

Min(a, b) == IF a < b THEN a ELSE b

RECURSIVE Pow(_, _)
\* 58_u128.pow(idx)
Pow(b, e) == IF e = 0 THEN 1 ELSE b * Pow(b, e - 1)

\* .take(BASE58_STRLEN - 1)
Take(s) == SubSeq(s, 1, Min(Len(s), BASE58_STRLEN - 1))

\* .rev().enumerate(): the character paired with idx
RevAt(t, idx) == t[Len(t) - idx]

\* .enumerate() without .rev()
FwdAt(t, idx) == t[idx + 1]

RECURSIVE CheckLoop(_, _)
\* the for loop: check += (58^idx * INV_LOOKUPTABLE[char]) .rem_euclid(53)
CheckLoop(t, idx) ==
    IF idx >= Len(t) THEN 0
    ELSE ((Pow(58, idx) * INV_LOOKUPTABLE[RevAt(t, idx)]) % 53)
             + CheckLoop(t, idx + 1)

RECURSIVE CheckLoopFwd(_, _)
\* the loop reading the characters most-significant first
CheckLoopFwd(t, idx) ==
    IF idx >= Len(t) THEN 0
    ELSE ((Pow(58, idx) * INV_LOOKUPTABLE[FwdAt(t, idx)]) % 53)
             + CheckLoopFwd(t, idx + 1)

\* checksum without .rev()
checksum_fwd(s) == (53 - CheckLoopFwd(Take(s), 0)) % 53

RECURSIVE CheckLoop53(_, _)
\* the loop with the modulus used as the base of the weights
CheckLoop53(t, idx) ==
    IF idx >= Len(t) THEN 0
    ELSE ((Pow(53, idx) * INV_LOOKUPTABLE[RevAt(t, idx)]) % 53)
             + CheckLoop53(t, idx + 1)

\* checksum with weights 53^idx
checksum_w53(s) == (53 - CheckLoop53(Take(s), 0)) % 53

\* Password::checksum
checksum(s) == (53 - CheckLoop(Take(s), 0)) % 53

\* self.0.0.pop()
Pop(s) == IF Len(s) = 0 THEN s ELSE SubSeq(s, 1, Len(s) - 1)

\* insert_checksum without the pop
insert_checksum_nopop(s) == Append(s, LOOKUPTABLE[checksum(s) + 1])

\* Password::insert_checksum
insert_checksum(s) == Append(Pop(s), LOOKUPTABLE[checksum(s) + 1])

\* validate_checksum indexing one past the final character
validate_checksum_off(s) ==
    IF Len(s) < BASE58_STRLEN + 1 THEN "panic"
    ELSE IF s[BASE58_STRLEN + 1] = LOOKUPTABLE[checksum(s) + 1]
         THEN "true" ELSE "false"

\* Password::validate_checksum: "true" / "false", or "panic" when the index
\* BASE58_STRLEN - 1 is out of the string's bounds.
validate_checksum(s) ==
    IF Len(s) < BASE58_STRLEN THEN "panic"
    ELSE IF s[BASE58_STRLEN] = LOOKUPTABLE[checksum(s) + 1]
         THEN "true" ELSE "false"

-----------------------------------------------------------------------------
(* Key expansion: impl From<Credential> for ExpandedCredential, and back *)

\* NonZeroU32::new(1000)
PBKDF2_ITERATIONS == 1000

RECURSIVE Absorb(_, _, _)
\* one pass of a keyed mixing function over the bytes of s
Absorb(h, s, i) ==
    IF i > Len(s) THEN h
    ELSE Absorb((h * 31 + s[i]) % DeriveSpace, s, i + 1)

\* pbkdf2::derive(PBKDF2_HMAC_SHA256, iter, salt, secret, &mut out): a fixed
\* function of (iter, salt, secret) and of nothing else; the stand-in keeps
\* salt and secret apart.
pbkdf2_derive(iter, salt, secret) ==
    Absorb(Absorb(iter % DeriveSpace, secret, 1), salt, 1)

\* The group of primitives::group: the subgroup of order 11 of the
\* multiplicative group modulo 23, generated by 2.
GroupModulus == 23
GroupOrder == 11
Generator == 2

\* Scalar::from_bytes_mod_order
from_bytes_mod_order(bytes) == bytes % GroupOrder

RECURSIVE PointMul(_, _)
\* Point * Scalar
PointMul(pt, k) ==
    IF k = 0 THEN 1 ELSE (pt * PointMul(pt, k - 1)) % GroupModulus

Credential(password, uuid) ==
    [kind |-> "credential", password |-> password, uuid |-> uuid]

\* the derivation salted by how many expansions were made before
derive_key_counted(c) ==
    from_bytes_mod_order(
        pbkdf2_derive(PBKDF2_ITERATIONS, Append(c.uuid, Len(log)), c.password))

\* salt = uuid, secret = password; out -> secret_key
derive_key(c) ==
    from_bytes_mod_order(pbkdf2_derive(PBKDF2_ITERATIONS, c.uuid, c.password))

\* the password field refreshed with its checksum on the way
kept_password_checked(c) == insert_checksum(c.password)

\* password: c.password
kept_password(c) == c.password

\* ExpandedCredential::from(c)
ExpandedFrom(c) ==
    [kind |-> "expanded",
     password |-> kept_password(c),
     uuid |-> c.uuid,
     secret_key |-> derive_key(c),
     public_key |-> PointMul(Generator, derive_key(c))]

\* Credential::from(expanded)
CredentialFromExpanded(e) == Credential(e.password, e.uuid)

\* Credential::from((pass, uuid))
CredentialFromPair(pass, uuid) == Credential(pass, uuid)

-----------------------------------------------------------------------------
(* Values and idle states shared by the specifications *)

NoVal == [kind |-> "none"]

RandomnessUnavailable == [kind |-> "error", error |-> "RandomnessUnavailable"]

\* Strings the randomness source hands out: digit (seed + 7 * i) mod 58 at
\* position i.
RngSeeds == {0, 19, 50}
RngDraw(seed) ==
    [i \in 1..BASE58_STRLEN |-> LOOKUPTABLE[((seed + 7 * i) % 58) + 1]]
RngStrings == {RngDraw(seed) : seed \in RngSeeds}

\* What a failed fill leaves in the buffer: fewer than BASE58_STRLEN symbols.
PartialFills ==
    {SubSeq(s, 1, k) : s \in RngStrings, k \in 0..(BASE58_STRLEN - 1)}

\* Election identifiers handed to Credential::gen and Credential::from.
SampleUUIDs == {RngDraw(11), RngDraw(40)}

GenIdle ==
    /\ lock = 0
    /\ pc = <<>>
    /\ op = <<>>
    /\ arg = <<>>
    /\ buf = <<>>
    /\ out = <<>>
    /\ rngErr = <<>>

ChkIdle ==
    /\ pw = <<>>
    /\ orig = <<>>
    /\ stage = "off"
    /\ mpos = 0
    /\ verdict = "none"

ExpIdle ==
    /\ cred = NoVal
    /\ log = <<>>
    /\ back = NoVal

-----------------------------------------------------------------------------
(* Spec: generation calls sharing one Arc<Mutex<dyn SecureRandom>> *)

Procs == 1..NumProcs

PasswordOps == {"Password::gen", "Credential::gen", "ExpandedCredential::gen"}
CredentialOps == {"Credential::gen", "ExpandedCredential::gen"}
Ops == {"UUID::gen"} \cup PasswordOps

Init ==
    /\ lock = 0
    /\ pc = [p \in Procs |-> "idle"]
    /\ op = [p \in Procs |-> "none"]
    /\ arg = [p \in Procs |-> <<>>]
    /\ buf = [p \in Procs |-> <<>>]
    /\ out = [p \in Procs |-> NoVal]
    /\ rngErr = [p \in Procs |-> FALSE]
    /\ ChkIdle
    /\ ExpIdle

\* A caller invokes one of the gen functions; each of them starts by
\* calling Base58::gen(rng).
Call(p) ==
    /\ pc[p] = "idle"
    /\ \E o \in Ops :
        /\ op' = [op EXCEPT ![p] = o]
        /\ IF o \in CredentialOps
           THEN \E u \in SampleUUIDs : arg' = [arg EXCEPT ![p] = u]
           ELSE arg' = arg
    /\ pc' = [pc EXCEPT ![p] = "lock"]
    /\ UNCHANGED <<lock, buf, out, rngErr, chkVars, expVars>>

\* Base58::gen: take the Mutex around the source.
Base58_gen_lock(p) ==
    /\ pc[p] = "lock"
    /\ lock = 0
    /\ lock' = p
    /\ pc' = [pc EXCEPT ![p] = "fill"]
    /\ UNCHANGED <<op, arg, buf, out, rngErr, chkVars, expVars>>

\* Base58::gen: the source fills the buffer with BASE58_STRLEN symbols.
Base58_gen_fill(p) ==
    /\ pc[p] = "fill"
    /\ lock = p
    /\ \E s \in RngStrings : buf' = [buf EXCEPT ![p] = s]
    /\ pc' = [pc EXCEPT ![p] = "unlock"]
    /\ UNCHANGED <<lock, op, arg, out, rngErr, chkVars, expVars>>

\* Base58::gen: the source fails, the buffer is left short.
Base58_gen_fill_err(p) ==
    /\ pc[p] = "fill"
    /\ lock = p
    /\ \E s \in PartialFills : buf' = [buf EXCEPT ![p] = s]
    /\ rngErr' = [rngErr EXCEPT ![p] = TRUE]
    /\ pc' = [pc EXCEPT ![p] = "raise"]
    /\ UNCHANGED <<lock, op, arg, out, chkVars, expVars>>

\* The gen functions without a handler that continue with whatever
\* Base58::gen left behind.
AfterBase58_swallow(o, failed) ==
    IF o = "UUID::gen" THEN "wrap" ELSE "checksum"

\* UUID(Base58::gen(rng)) and Password(Base58::gen(rng)) use the value
\* Base58::gen returns; none of the gen functions handles its failure, which
\* passes through them to the caller.
AfterBase58(o, failed) ==
    IF failed THEN "failed"
    ELSE IF o = "UUID::gen" THEN "wrap" ELSE "checksum"

\* Base58::gen returns its string; the guard on the Mutex is dropped.
Base58_gen_return(p) ==
    /\ pc[p] = "unlock"
    /\ lock = p
    /\ lock' = 0
    /\ pc' = [pc EXCEPT ![p] = AfterBase58(op[p], FALSE)]
    /\ UNCHANGED <<op, arg, buf, out, rngErr, chkVars, expVars>>

\* Base58::gen fails; the guard on the Mutex is dropped on the way out.
Base58_gen_fail(p) ==
    /\ pc[p] = "raise"
    /\ lock = p
    /\ lock' = 0
    /\ pc' = [pc EXCEPT ![p] = AfterBase58(op[p], TRUE)]
    /\ IF AfterBase58(op[p], TRUE) = "failed"
       THEN /\ out' = [out EXCEPT ![p] = RandomnessUnavailable]
            /\ buf' = [buf EXCEPT ![p] = <<>>]
       ELSE UNCHANGED <<out, buf>>
    /\ UNCHANGED <<op, arg, rngErr, chkVars, expVars>>

\* UUID::gen: UUID(Base58::gen(rng))
UUID_gen(p) ==
    /\ pc[p] = "wrap"
    /\ op[p] = "UUID::gen"
    /\ out' = [out EXCEPT ![p] = [kind |-> "uuid", s |-> buf[p]]]
    /\ buf' = [buf EXCEPT ![p] = <<>>]
    /\ pc' = [pc EXCEPT ![p] = "done"]
    /\ UNCHANGED <<lock, op, arg, rngErr, chkVars, expVars>>

\* insert_checksum run before Base58::gen's critical section has ended
ChecksumInsideLock == "unlock"

\* Password::gen runs pass.insert_checksum() on the value Base58::gen has
\* returned.
ChecksumAt == "checksum"

\* Password::gen: pass.insert_checksum(); pass
Password_gen(p) ==
    /\ pc[p] = ChecksumAt
    /\ op[p] \in PasswordOps
    /\ IF op[p] = "Password::gen"
       THEN /\ out' = [out EXCEPT
                         ![p] = [kind |-> "password", s |-> insert_checksum(buf[p])]]
            /\ buf' = [buf EXCEPT ![p] = <<>>]
            /\ pc' = [pc EXCEPT ![p] = "done"]
       ELSE /\ buf' = [buf EXCEPT ![p] = insert_checksum(buf[p])]
            /\ pc' = [pc EXCEPT ![p] = "pair"]
            /\ out' = out
    /\ UNCHANGED <<lock, op, arg, rngErr, chkVars, expVars>>

\* Credential::gen: Credential { password, uuid: uuid.clone() }
Credential_gen(p) ==
    /\ pc[p] = "pair"
    /\ op[p] \in CredentialOps
    /\ out' = [out EXCEPT ![p] = Credential(buf[p], arg[p])]
    /\ buf' = [buf EXCEPT ![p] = <<>>]
    /\ pc' = [pc EXCEPT
                ![p] = IF op[p] = "Credential::gen" THEN "done" ELSE "expand"]
    /\ UNCHANGED <<lock, op, arg, rngErr, chkVars, expVars>>

\* ExpandedCredential::gen: Credential::gen(rng, uuid).into()
ExpandedCredential_gen(p) ==
    /\ pc[p] = "expand"
    /\ op[p] = "ExpandedCredential::gen"
    /\ out' = [out EXCEPT ![p] = ExpandedFrom(out[p])]
    /\ pc' = [pc EXCEPT ![p] = "done"]
    /\ UNCHANGED <<lock, op, arg, buf, rngErr, chkVars, expVars>>

Next ==
    \E p \in Procs :
        \/ Call(p)
        \/ Base58_gen_lock(p)
        \/ Base58_gen_fill(p)
        \/ Base58_gen_fill_err(p)
        \/ Base58_gen_return(p)
        \/ Base58_gen_fail(p)
        \/ UUID_gen(p)
        \/ Password_gen(p)
        \/ Credential_gen(p)
        \/ ExpandedCredential_gen(p)

Spec == Init /\ [][Next]_vars

-----------------------------------------------------------------------------
(* SpecChecksum: a Password value, validated, and with one character       *)
(* replaced                                                                *)

\* Digits the Password values under test are built from; replacements
\* range over the whole alphabet.
SampleDigits == {0, 4, 5, 30, 53, 57}
SampleBytes == {LOOKUPTABLE[d + 1] : d \in SampleDigits}

\* Base58 values a Password can wrap without having gone through
\* Password::gen (Password(pub(crate) Base58), derive(Deserialize)).
RawPasswords == [1..BASE58_STRLEN -> SampleBytes]

InitChecksum ==
    /\ pw \in RawPasswords
    /\ orig = <<>>
    /\ stage = "raw"
    /\ mpos = 0
    /\ verdict = "none"
    /\ GenIdle
    /\ ExpIdle

\* pass.insert_checksum() on the value at hand
InsertChecksum ==
    /\ stage = "raw"
    /\ pw' = insert_checksum(pw)
    /\ orig' = pw'
    /\ stage' = "valid"
    /\ verdict' = "none"
    /\ UNCHANGED <<mpos, genVars, expVars>>

\* One character of a valid Password replaced by a different symbol.
Replace ==
    /\ stage = "valid"
    /\ \E i \in 1..Len(pw) : \E b \in Alphabet :
        /\ b # pw[i]
        /\ pw' = [pw EXCEPT ![i] = b]
        /\ mpos' = i
    /\ stage' = "corrupt"
    /\ verdict' = "none"
    /\ UNCHANGED <<orig, genVars, expVars>>

\* password.validate_checksum()
Validate ==
    /\ verdict = "none"
    /\ verdict' = validate_checksum(pw)
    /\ UNCHANGED <<pw, orig, stage, mpos, genVars, expVars>>

NextChecksum == InsertChecksum \/ Replace \/ Validate

SpecChecksum == InitChecksum /\ [][NextChecksum]_vars

-----------------------------------------------------------------------------
(* SpecExpand: Credentials, their expansions, deserialized                 *)
(* ExpandedCredentials and downcasts                                       *)

\* A Password that never went through Password::gen.
SamplePasswords == {RngDraw(19)}

\* What the source draws for the Credential::gen calls of this specification.
ExpandSeeds == {0}

\* secret_key / public_key fields a serialized ExpandedCredential may carry.
SampleScalars == {2, 3}
SamplePoints == {PointMul(Generator, 1), PointMul(Generator, 2)}

InitExpand ==
    /\ cred = NoVal
    /\ log = <<>>
    /\ back = NoVal
    /\ GenIdle
    /\ ChkIdle

\* Credential::from((pass, uuid))
MakeCredential ==
    /\ \E pass \in SamplePasswords, u \in SampleUUIDs :
          cred' = CredentialFromPair(pass, u)
    /\ UNCHANGED <<log, back, genVars, chkVars>>

\* Credential::gen(rng, &uuid), run on its own
GenerateCredential ==
    /\ \E seed \in ExpandSeeds, u \in SampleUUIDs :
          cred' = Credential(insert_checksum(RngDraw(seed)), u)
    /\ UNCHANGED <<log, back, genVars, chkVars>>

\* ExpandedCredential::from(cred.clone())
Expand ==
    /\ cred # NoVal
    /\ Len(log) < MaxLog
    /\ log' = Append(log, [e |-> ExpandedFrom(cred), via |-> "from", src |-> cred])
    /\ UNCHANGED <<cred, back, genVars, chkVars>>

NumDeserialized == Cardinality({i \in 1..Len(log) : log[i].via = "deserialize"})

\* derive(Deserialize) on ExpandedCredential: the four fields are read one
\* by one from the input, each by its own type's Deserialize.
Deserialize ==
    /\ Len(log) < MaxLog
    /\ NumDeserialized < MaxDeserialized
    /\ \E pass \in SamplePasswords, u \in SampleUUIDs,
          sk \in SampleScalars, pk \in SamplePoints :
          log' = Append(log,
                    [e |-> [kind |-> "expanded", password |-> pass, uuid |-> u,
                            secret_key |-> sk, public_key |-> pk],
                     via |-> "deserialize", src |-> NoVal])
    /\ UNCHANGED <<cred, back, genVars, chkVars>>

\* Credential::from(expanded)
Downcast ==
    /\ \E i \in 1..Len(log) :
          back' = [kind |-> "downcast", of |-> i,
                   c |-> CredentialFromExpanded(log[i].e)]
    /\ UNCHANGED <<cred, log, genVars, chkVars>>

NextExpand ==
    MakeCredential \/ GenerateCredential \/ Expand \/ Deserialize \/ Downcast

SpecExpand == InitExpand /\ [][NextExpand]_vars

-----------------------------------------------------------------------------
(* Claims about generation (Spec) *)

\* the Password inside what a call returned, <<>> when it returned none
PasswordOf(v) ==
    IF v.kind = "password" THEN v.s
    ELSE IF v.kind \in {"credential", "expanded"} THEN v.password
    ELSE <<>>

\* C1: every Password returned by Password::gen, and the password of every
\* Credential returned by Credential::gen, satisfies validate_checksum().
C1_GeneratedPasswordValid ==
    \A p \in Procs :
        out[p].kind \in {"password", "credential", "expanded"}
            => validate_checksum(PasswordOf(out[p])) = "true"

\* Credential::gen returned a Credential whose password differs from every
\* string the source hands out: the checksum replaced the final character.
C1_Witness ==
    \E p \in Procs :
        /\ pc[p] = "done"
        /\ op[p] = "Credential::gen"
        /\ out[p].kind = "credential"
        /\ out[p].password \notin RngStrings
        /\ validate_checksum(out[p].password) = "true"

\* C7: when the randomness source fails during a gen call, the call ends
\* with the randomness-unavailable failure: it returns no UUID, Password or
\* Credential, nothing it returns was built from a short buffer, and it
\* does not go back to the source.
C7_FailurePropagates ==
    \A p \in Procs :
        /\ rngErr[p] =>
              /\ pc[p] \in {"raise", "failed"}
              /\ out[p] \in {NoVal, RandomnessUnavailable}
        /\ pc[p] = "failed" => (rngErr[p] /\ out[p] = RandomnessUnavailable)
        /\ out[p].kind = "uuid" => IsBase58(out[p].s)
        /\ out[p].kind \in {"password", "credential", "expanded"}
              => IsBase58(PasswordOf(out[p]))

\* ExpandedCredential::gen ended with the failure of the source while
\* another call returned a value.
C7_Witness ==
    \E p, q \in Procs :
        /\ pc[p] = "failed"
        /\ op[p] = "ExpandedCredential::gen"
        /\ out[p] = RandomnessUnavailable
        /\ pc[q] = "done"
        /\ out[q].kind = "password"

Drawing == {"fill", "unlock", "raise"}

\* C9: with several gen calls on one shared source, at most one call is
\* drawing at any moment, the lock is held by a call only while it draws
\* (not while it computes or inserts the checksum, pairs or derives keys),
\* and every returned Password has a valid checksum.
C9_LockOnlyAroundDraw ==
    /\ Cardinality({p \in Procs : pc[p] \in Drawing}) <= 1
    /\ \A p \in Procs :
          /\ pc[p] \in Drawing => lock = p
          /\ lock = p => pc[p] \in Drawing
          /\ pc[p] \in {"wrap", "checksum", "pair", "expand"} => lock # p
          /\ (pc[p] = "done" /\ op[p] \in PasswordOps)
                => validate_checksum(PasswordOf(out[p])) = "true"

\* one call is about to insert its checksum while another holds the lock
\* and draws, and a third party could not be drawing
C9_Witness ==
    \E p, q \in Procs :
        /\ p # q
        /\ pc[p] = "checksum"
        /\ pc[q] = "unlock"
        /\ lock = q

-----------------------------------------------------------------------------
(* Claims about key expansion (SpecExpand) *)

FromEntries == {i \in 1..Len(log) : log[i].via = "from"}

C4_KeysConsistent ==
    \A i \in 1..Len(log) :
        /\ log[i].e.public_key = PointMul(Generator, log[i].e.secret_key)
        /\ log[i].e.secret_key =
              from_bytes_mod_order(
                  pbkdf2_derive(PBKDF2_ITERATIONS, log[i].e.uuid, log[i].e.password))

\* C5: Credential::from(ExpandedCredential::from(c)) has the password and
\* the uuid of c.
C5_RoundTrip ==
    (back # NoVal /\ log[back.of].via = "from") =>
        /\ back.c.password = log[back.of].src.password
        /\ back.c.uuid = log[back.of].src.uuid

\* a Credential whose password fails its checksum went through expansion
\* and downcast
C5_Witness ==
    /\ back # NoVal
    /\ log[back.of].via = "from"
    /\ validate_checksum(log[back.of].src.password) = "false"
    /\ back.c = log[back.of].src

-----------------------------------------------------------------------------
(* Claims about the checksum (SpecChecksum) *)

\* digit value of the character at reversed position i among the first
\* BASE58_STRLEN - 1 characters (position 0 is character index N-2)
DigitAtRev(s, i) == INV_LOOKUPTABLE[s[BASE58_STRLEN - 1 - i]]

RECURSIVE WeightedSum(_, _)
\* sum over i >= from of 58^i * d_i, not reduced
WeightedSum(s, from) ==
    IF from > BASE58_STRLEN - 2 THEN 0
    ELSE Pow(58, from) * DigitAtRev(s, from) + WeightedSum(s, from + 1)

\* C2: for every Password of N alphabet characters, checksum returns
\* (53 - s) mod 53 with s = (sum of 58^i * d_i) mod 53 over the first N-1
\* characters read in reverse; the result is in [0,53) and does not depend
\* on the final character.
C2_ChecksumFormula ==
    /\ checksum(pw) = (53 - (WeightedSum(pw, 0) % 53)) % 53
    /\ checksum(pw) \in 0..52
    /\ \A b \in Alphabet :
          checksum([pw EXCEPT ![BASE58_STRLEN] = b]) = checksum(pw)

\* insert_checksum has computed a non-zero checksum over leading characters
\* whose digits differ, and stored it in the final character.
C2_Witness ==
    /\ stage = "valid"
    /\ checksum(pw) # 0
    /\ pw[BASE58_STRLEN] = LOOKUPTABLE[checksum(pw) + 1]
    /\ INV_LOOKUPTABLE[pw[1]] # INV_LOOKUPTABLE[pw[BASE58_STRLEN - 1]]

\* the replacements <<position, symbol>> of one of the first N-1 characters
\* by a different alphabet symbol
Replacements(s) ==
    {r \in (1..(BASE58_STRLEN - 1)) \X Alphabet : r[2] # s[r[1]]}

\* those after which validate_checksum returns false
Detected(s) ==
    {r \in Replacements(s) :
        validate_checksum([s EXCEPT ![r[1]] = r[2]]) = "false"}

\* digit values that have a partner 53 away inside the alphabet
Paired == (0..4) \cup (53..57)

\* C6 as stated: validate_checksum returns false for 52/53 of the
\* single-character replacements among the first N-1 characters of a valid
\* Password.
C6_Original ==
    stage = "valid" =>
        53 * Cardinality(Detected(pw)) = 52 * Cardinality(Replacements(pw))

\* C6 amended: the replacements that validate_checksum lets through are one
\* for each of the first N-1 characters whose digit value is in 0..4 or
\* 53..57, and no other; at least 56 of every 57 replacements are rejected.
C6_DetectionCount ==
    stage = "valid" =>
        /\ Cardinality(Replacements(pw)) = 57 * (BASE58_STRLEN - 1)
        /\ Cardinality(Replacements(pw) \ Detected(pw))
             = Cardinality({i \in 1..(BASE58_STRLEN - 1) :
                               INV_LOOKUPTABLE[pw[i]] \in Paired})
        /\ 57 * Cardinality(Detected(pw)) >= 56 * Cardinality(Replacements(pw))

\* a validated Password one of whose replacements passes the check and
\* another of whose replacements is rejected
C6_Witness ==
    /\ stage = "valid"
    /\ verdict = "true"
    /\ Detected(pw) # {}
    /\ Replacements(pw) \ Detected(pw) # {}

\* C8: validate_checksum never fails; for every Password value, generated
\* or not, it returns true exactly when the digit decoded from the final
\* character equals the checksum recomputed over the first N-1 characters.
C8_ValidateTotal ==
    verdict # "none" =>
        /\ verdict \in {"true", "false"}
        /\ verdict = "true"
             <=> INV_LOOKUPTABLE[pw[BASE58_STRLEN]] = checksum(pw)

\* a Password that never went through insert_checksum, whose final
\* character decodes to a digit no checksum takes, was validated: false
C8_Witness ==
    /\ stage = "raw"
    /\ verdict = "false"
    /\ INV_LOOKUPTABLE[pw[BASE58_STRLEN]] >= 53

Abs(x) == IF x < 0 THEN -x ELSE x

\* C10: after one character of a valid Password is replaced by a different
\* symbol, validate_checksum returns true iff the character is among the
\* first N-1 and the two digit values differ by exactly 53; every other
\* replacement, and every replacement of the final character, gives false.
C10_UndetectedIffDiff53 ==
    (stage = "corrupt" /\ verdict # "none") =>
        (verdict = "true"
           <=> /\ mpos < BASE58_STRLEN
               /\ Abs(INV_LOOKUPTABLE[orig[mpos]] - INV_LOOKUPTABLE[pw[mpos]]) = 53)

\* a replacement of the first character by its partner 53 away was
\* validated and passed
C10_Witness ==
    /\ stage = "corrupt"
    /\ verdict = "true"
    /\ mpos = 1
    /\ INV_LOOKUPTABLE[orig[1]] = 4
    /\ INV_LOOKUPTABLE[pw[1]] = 57

====
